---- MODULE Spec2Model ----
(***************************************************************************)
(* Model of formatter.go: TextFormatter, a logrus formatter that renders   *)
(* one log entry as a compact text line.                                   *)
(*                                                                         *)
(* Texts are sequences of characters.  A character is a one-character      *)
(* string; the escape byte 0x1b is the token "ESC".                        *)
(***************************************************************************)
EXTENDS Integers, Sequences, FiniteSets, TLC

----------------------------------------------------------------------------
(* Bounds of the model *)

\* number of goroutines calling Format on the one formatter
NProcs == 2
\* largest number of fields of a record
MaxFields == 2

----------------------------------------------------------------------------
(* Characters and texts *)

ESC == "ESC"
\* the character of code 96
GRAVE == "GRAVE"
Nil == "nil"

\* the printable ASCII characters, in code order, from code 32
Ascii ==
  <<" ", "!", "\"", "#", "$", "%", "&", "'", "(", ")", "*", "+", ",", "-", ".", "/",
    "0", "1", "2", "3", "4", "5", "6", "7", "8", "9", ":", ";", "<", "=", ">", "?",
    "@", "A", "B", "C", "D", "E", "F", "G", "H", "I", "J", "K", "L", "M", "N", "O",
    "P", "Q", "R", "S", "T", "U", "V", "W", "X", "Y", "Z", "[", "\\", "]", "^", "_",
    GRAVE, "a", "b", "c", "d", "e", "f", "g", "h", "i", "j", "k", "l", "m", "n", "o",
    "p", "q", "r", "s", "t", "u", "v", "w", "x", "y", "z", "{", "|", "}", "~">>

\* the code of every character of the model
Codes ==
  [c \in {Ascii[i] : i \in 1..Len(Ascii)} \cup {"\t", "\n", ESC} |->
     CASE c = "\t" -> 9
       [] c = "\n" -> 10
       [] c = ESC -> 27
       [] OTHER -> 31 + (CHOOSE i \in 1..Len(Ascii) : Ascii[i] = c)]

Code(c) == Codes[c]

Chr(n) == Ascii[n - 31]

Digits == <<"0", "1", "2", "3", "4", "5", "6", "7", "8", "9">>

IsDigit(c) == \E i \in 1..10 : Digits[i] = c

RECURSIVE Concat(_)
\* the concatenation of a sequence of texts
Concat(ss) == IF ss = <<>> THEN <<>> ELSE Head(ss) \o Concat(Tail(ss))

Spaces(n) == [i \in 1..n |-> " "]

\* strconv.Itoa / the %d verb
RECURSIVE ItoaNat(_)
ItoaNat(n) == IF n < 10 THEN <<Digits[n + 1]>> ELSE ItoaNat(n \div 10) \o <<Digits[(n % 10) + 1]>>

Itoa(n) == IF n < 0 THEN <<"-">> \o ItoaNat(0 - n) ELSE ItoaNat(n)

\* the %-Ns verb: left-justified, padded with spaces to a minimum width
PadRight(s, width) == IF Len(s) >= width THEN s ELSE s \o Spaces(width - Len(s))

\* strings.ToUpper on ASCII text
ToUpper(s) ==
  [i \in 1..Len(s) |->
     IF Code(s[i]) >= 97 /\ Code(s[i]) <= 122 THEN Chr(Code(s[i]) - 32) ELSE s[i]]

\* strings.TrimSuffix(s, "\n")
TrimSuffix(s) ==
  IF Len(s) >= 1 /\ s[Len(s)] = "\n" THEN SubSeq(s, 1, Len(s) - 1) ELSE s

\* the string order of Go: byte-wise lexicographic
RECURSIVE StrLess(_, _)
StrLess(a, b) ==
  IF b = <<>> THEN FALSE
  ELSE IF a = <<>> THEN TRUE
  ELSE IF Code(Head(a)) # Code(Head(b)) THEN Code(Head(a)) < Code(Head(b))
  ELSE StrLess(Tail(a), Tail(b))

----------------------------------------------------------------------------
(* Program constants *)

faint == 2
red == 31
yellow == 33
blue == 36
gray == 37

\* the width of the message column ("%-44s")
messageWidth == 44
\* the length of a truncated level text (levelText[0:4])
truncateLength == 4

defaultTimestampFormat == "2006-01-02 15:04:05 MST"

----------------------------------------------------------------------------
(* The logrus types the formatter reads *)

\* logrus.AllLevels: PanicLevel = 0 up to TraceLevel = 6
PanicLevel == 0
FatalLevel == 1
ErrorLevel == 2
WarnLevel == 3
InfoLevel == 4
DebugLevel == 5
TraceLevel == 6

AllLevels == <<PanicLevel, FatalLevel, ErrorLevel, WarnLevel, InfoLevel, DebugLevel, TraceLevel>>

\* Level.String(): the canonical lower-case name of a level
LevelString(level) ==
  CASE level = PanicLevel -> <<"p", "a", "n", "i", "c">>
    [] level = FatalLevel -> <<"f", "a", "t", "a", "l">>
    [] level = ErrorLevel -> <<"e", "r", "r", "o", "r">>
    [] level = WarnLevel -> <<"w", "a", "r", "n", "i", "n", "g">>
    [] level = InfoLevel -> <<"i", "n", "f", "o">>
    [] level = DebugLevel -> <<"d", "e", "b", "u", "g">>
    [] level = TraceLevel -> <<"t", "r", "a", "c", "e">>
    [] OTHER -> <<"u", "n", "k", "n", "o", "w", "n">>

\* Entry.HasCaller()
HasCaller(entry) ==
  /\ ~entry.Logger.isNil
  /\ entry.Logger.ReportCaller
  /\ ~entry.Caller.isNil

\* Time.Format(layout) of the one instant the model's records carry
TimeFormat(time, layout) ==
  IF layout = defaultTimestampFormat
  THEN <<"2", "0", "2", "6", "-", "1", "1", "-", "0", "5", " ",
         "1", "0", ":", "5", "7", ":", "0", "0", " ", "U", "T", "C">>
  ELSE <<"1", "0", ":", "5", "7">>

\* fmt.Sprint of a field value that is not a string
Sprint(value) ==
  CASE value.kind = "int" -> Itoa(value.n)
    [] value.kind = "bool" -> IF value.b THEN <<"t", "r", "u", "e">> ELSE <<"f", "a", "l", "s", "e">>
    [] OTHER -> value.s

\* the escape of one character by the %q verb (strconv.Quote)
QuoteChar(c) ==
  CASE c = "\"" -> <<"\\", "\"">>
    [] c = "\\" -> <<"\\", "\\">>
    [] c = "\n" -> <<"\\", "n">>
    [] c = "\t" -> <<"\\", "t">>
    [] c = ESC -> <<"\\", "x", "1", "b">>
    [] OTHER -> <<c>>

\* fmt.Sprintf("%q", s)
Quote(s) == <<"\"">> \o Concat([i \in 1..Len(s) |-> QuoteChar(s[i])]) \o <<"\"">>

----------------------------------------------------------------------------
(* The functions of formatter.go *)

\* isTerminal(w): w is an *os.File and the file is a terminal
IsTerminalWriter(w) == IF w \notin {"tty", "file"} THEN FALSE ELSE w = "tty"

\* init, lines 63-65: the terminal probe
InitTerminal(f, entry) ==
  IF ~entry.Logger.isNil
  THEN [f EXCEPT !.isTerminal = IsTerminalWriter(entry.Logger.Out)]
  ELSE f

\* init, lines 67-70: one turn of the loop over logrus.AllLevels
InitLevel(f, i) ==
  LET levelTextLength == Len(LevelString(AllLevels[i]))
  IN IF levelTextLength > f.levelTextMaxLength
     THEN [f EXCEPT !.levelTextMaxLength = levelTextLength]
     ELSE f

RECURSIVE InitLevels(_, _)
\* init, lines 66-71: the loop from turn i on
InitLevels(f, i) == IF i > Len(AllLevels) THEN f ELSE InitLevels(InitLevel(f, i), i + 1)

\* (f *TextFormatter) init(entry)
InitBody(f, entry) == InitLevels(InitTerminal(f, entry), 1)

\* isColored with DisableColors applied to the terminal detection only
isColored_ForceWins(f, goos) ==
  f.ForceColors \/ (f.isTerminal /\ goos # "windows" /\ ~f.DisableColors)

\* (f *TextFormatter) isColored()
isColored(f, goos) ==
  LET colored == f.ForceColors \/ (f.isTerminal /\ goos # "windows")
  IN colored /\ ~f.DisableColors

\* colorPrint with the reset sequence left open: "\x1b[%dm%s\x1b[0"
colorPrint_OpenReset(text, color) ==
  IF color > 0
  THEN <<ESC, "[">> \o Itoa(color) \o <<"m">> \o text \o <<ESC, "[", "0">>
  ELSE text

\* fmt.Sprintf("\x1b[%dm%s\x1b[0m", color, text) for a positive color
colorPrint(text, color) ==
  IF color > 0
  THEN <<ESC, "[">> \o Itoa(color) \o <<"m">> \o text \o <<ESC, "[", "0", "m">>
  ELSE text

\* the character test of needsQuoting, lines 95-98
IsSafeChar(ch) ==
  \/ (Code(ch) >= Code("a") /\ Code(ch) <= Code("z"))
  \/ (Code(ch) >= Code("A") /\ Code(ch) <= Code("Z"))
  \/ (Code(ch) >= Code("0") /\ Code(ch) <= Code("9"))
  \/ ch = "-" \/ ch = "." \/ ch = "_" \/ ch = "/" \/ ch = "@" \/ ch = "^" \/ ch = "+"

\* needsQuoting with DisableQuote tested before ForceQuote
needsQuoting_DisableFirst(f, text) ==
  IF f.DisableQuote THEN FALSE
  ELSE IF f.ForceQuote THEN TRUE
  ELSE \E i \in 1..Len(text) : ~IsSafeChar(text[i])

\* (f *TextFormatter) needsQuoting(text)
needsQuoting(f, text) ==
  IF f.ForceQuote THEN TRUE
  ELSE IF f.DisableQuote THEN FALSE
  ELSE \E i \in 1..Len(text) : ~IsSafeChar(text[i])

\* (f *TextFormatter) appendValue(b, value): the text it writes
appendValue(f, value) ==
  LET stringVal == IF value.kind = "string" THEN value.s ELSE Sprint(value)
  IN IF ~needsQuoting(f, stringVal) THEN stringVal ELSE Quote(stringVal)

RECURSIVE InsertSorted(_, _)
InsertSorted(k, sorted) ==
  IF sorted = <<>> THEN <<k>>
  ELSE IF StrLess(k, Head(sorted)) THEN <<k>> \o sorted
  ELSE <<Head(sorted)>> \o InsertSorted(k, Tail(sorted))

RECURSIVE SortStrings(_)
\* sort.Strings(keys)
SortStrings(keys) ==
  IF keys = <<>> THEN <<>> ELSE InsertSorted(Head(keys), SortStrings(Tail(keys)))

Reverse(s) == [i \in 1..Len(s) |-> s[Len(s) + 1 - i]]

\* f.SortingFunc(keys) for the sorting functions the model's callers supply
CallSortingFunc(fn, keys) ==
  CASE fn = "descending" -> Reverse(SortStrings(keys))
    [] OTHER -> keys

\* SortKeys with DisableSorting ignored
SortKeys_AlwaysSort(f, keys) ==
  IF f.SortingFunc = Nil THEN SortStrings(keys) ELSE CallSortingFunc(f.SortingFunc, keys)

\* SortKeys with the default sort left out
SortKeys_NoDefaultSort(f, keys) ==
  IF ~f.DisableSorting /\ f.SortingFunc # Nil THEN CallSortingFunc(f.SortingFunc, keys) ELSE keys

\* Format, lines 129-135: the order of the keys
SortKeys(f, keys) ==
  IF ~f.DisableSorting
  THEN IF f.SortingFunc = Nil THEN SortStrings(keys) ELSE CallSortingFunc(f.SortingFunc, keys)
  ELSE keys

\* Format, lines 153-166: the colour of the level
LevelColor(f, goos, level) ==
  IF isColored(f, goos)
  THEN CASE level \in {DebugLevel, TraceLevel} -> gray
         [] level = WarnLevel -> yellow
         [] level \in {ErrorLevel, FatalLevel, PanicLevel} -> red
         [] OTHER -> blue
  ELSE -1

\* Format, lines 154 and 169
Separator(f, goos) == IF isColored(f, goos) THEN <<" ">> ELSE <<" ", ":", ":", " ">>

\* Format, lines 146-151 and 168
Timestamp(f, goos, entry) ==
  LET timestampFormat == IF f.TimestampFormat = "" THEN defaultTimestampFormat ELSE f.TimestampFormat
      timestamp == TimeFormat(entry.Time, timestampFormat)
  IN IF isColored(f, goos) THEN colorPrint(timestamp, faint) ELSE timestamp

\* Format, line 175: levelText[0:4] panics when the text is shorter
TruncatePanics(f, level) ==
  f.TruncateLevelText /\ ~f.PadLevelText /\ Len(ToUpper(LevelString(level))) < truncateLength

\* LevelText with the truncation applied whenever TruncateLevelText is set
LevelText_TruncateFirst(f, level) ==
  LET upper == ToUpper(LevelString(level))
      cut == IF f.TruncateLevelText THEN SubSeq(upper, 1, truncateLength) ELSE upper
  IN IF f.PadLevelText THEN PadRight(cut, f.levelTextMaxLength) ELSE cut

\* Format, lines 172-180
LevelText(f, level) ==
  LET upper == ToUpper(LevelString(level))
      cut == IF f.TruncateLevelText /\ ~f.PadLevelText THEN SubSeq(upper, 1, truncateLength) ELSE upper
  IN IF f.PadLevelText THEN PadRight(cut, f.levelTextMaxLength) ELSE cut

\* f.CallerPrettyfier(entry.Caller) for the prettyfiers the model's callers supply:
\* the pair <<function, file>>
CallPrettyfier(fn, frame) ==
  CASE fn = "both" -> <<frame.Function, frame.File>>
    [] fn = "function" -> <<frame.Function, <<>>>>
    [] fn = "file" -> <<<<>>, frame.File>>
    [] OTHER -> <<<<>>, <<>>>>

\* Format, lines 184-204
CallerText(f, entry) ==
  IF HasCaller(entry)
  THEN LET default == <<entry.Caller.Function \o <<":">> \o Itoa(entry.Caller.Line), <<>>>>
           pair == IF f.CallerPrettyfier # Nil
                   THEN CallPrettyfier(f.CallerPrettyfier, entry.Caller)
                   ELSE default
           funcVal == pair[1]
           fileVal == pair[2]
           caller == IF fileVal = <<>> THEN funcVal
                     ELSE IF funcVal = <<>> THEN fileVal
                     ELSE fileVal \o <<" ">> \o funcVal
       IN <<" ", "(">> \o caller \o <<")">>
  ELSE <<>>

\* HeadText with the message column written as "%-44s", without the space after it
HeadText_NoSpaceAfterMessage(f, goos, entry) ==
  LET levelColor == LevelColor(f, goos, entry.Level)
      separator == Separator(f, goos)
      message == TrimSuffix(entry.Message)
      colorSection == colorPrint(LevelText(f, entry.Level) \o CallerText(f, entry), levelColor)
  IN IF f.DisableTimestamp
     THEN colorSection \o separator \o PadRight(message, messageWidth)
     ELSE Timestamp(f, goos, entry) \o separator \o colorSection \o separator
            \o PadRight(message, messageWidth)

\* Format, lines 206-215: the head of the line
HeadText(f, goos, entry) ==
  LET levelColor == LevelColor(f, goos, entry.Level)
      separator == Separator(f, goos)
      message == TrimSuffix(entry.Message)
      colorSection == colorPrint(LevelText(f, entry.Level) \o CallerText(f, entry), levelColor)
  IN IF f.DisableTimestamp
     THEN colorSection \o separator \o PadRight(message, messageWidth) \o <<" ">>
     ELSE Timestamp(f, goos, entry) \o separator \o colorSection \o separator
            \o PadRight(message, messageWidth) \o <<" ">>

\* Format, lines 217-219: one field
FieldText(f, goos, entry, k) ==
  <<" ">> \o colorPrint(k, LevelColor(f, goos, entry.Level)) \o <<"=">>
    \o appendValue(f, entry.Data[k])

\* Format, lines 206-222: what one call writes into the buffer
LineText(f, goos, entry, keys) ==
  HeadText(f, goos, entry)
    \o Concat([i \in 1..Len(keys) |-> FieldText(f, goos, entry, keys[i])])
    \o <<"\n">>

----------------------------------------------------------------------------
(* State *)

VARIABLES
  f,            \* the TextFormatter: its configuration and its two cached fields
  goos,         \* runtime.GOOS of the build
  once,         \* f.terminalInitOnce: the done flag and the holder of its mutex (0: free)
  pc,           \* per goroutine: where its call of Format stands
  entry,        \* per goroutine: the *logrus.Entry it passed to Format
  keys,         \* per goroutine: the local slice keys of Format
  out,          \* per goroutine: the bytes its last call returned
  idx,          \* per goroutine: the index of the loop of init
  given,        \* history: per goroutine, the entry as it was when Format was called
  inserted,     \* history: per goroutine, the keys in the order the caller added the fields
  ranged,       \* history: per goroutine, the keys in the order the range over the map gave them
  initStarted,  \* history: how many times the body of init was entered
  initFinished  \* history: how many times the body of init ran to its end

vars == <<f, goos, once, pc, entry, keys, out, idx, given, inserted, ranged, initStarted, initFinished>>

Procs == 1..NProcs

ToSet(s) == {s[i] : i \in 1..Len(s)}

\* the sequences without repetition of all the elements of a set
Orders(S) == {s \in [1..Cardinality(S) -> S] : ToSet(s) = S}

\* the Data map a caller builds by adding the fields <<key, value>> one after the other
\* (a later value of a key replaces the earlier one)
FieldsOf(fields) ==
  [k \in {fields[i][1] : i \in 1..Len(fields)} |->
     fields[CHOOSE i \in 1..Len(fields) :
              fields[i][1] = k /\ \A j \in (i + 1)..Len(fields) : fields[j][1] # k][2]]

KeysOf(fields) == [i \in 1..Len(fields) |-> fields[i][1]]

\* a formatter as constructed: the configuration given, the cached fields zero
NewFormatter(config) == config @@ [isTerminal |-> FALSE, levelTextMaxLength |-> 0]

\* a nil *logrus.Logger, a nil *runtime.Frame, a nil *bytes.Buffer
NilLogger == [isNil |-> TRUE, Out |-> "none", ReportCaller |-> FALSE]
NilFrame == [isNil |-> TRUE, Function |-> <<>>, Line |-> 0, File |-> <<>>]
NilBuffer == [isNil |-> TRUE, bytes |-> <<>>]

\* the zero logrus.Entry
NoEntry ==
  [Logger |-> NilLogger, Time |-> "T0", Level |-> PanicLevel, Message |-> <<>>,
   Data |-> <<>>, Caller |-> NilFrame, Buffer |-> NilBuffer]

InitState(config, os) ==
  /\ f = NewFormatter(config)
  /\ goos = os
  /\ once = [done |-> 0, m |-> 0]
  /\ pc = [p \in Procs |-> "idle"]
  /\ entry = [p \in Procs |-> NoEntry]
  /\ keys = [p \in Procs |-> <<>>]
  /\ out = [p \in Procs |-> <<>>]
  /\ idx = [p \in Procs |-> 0]
  /\ given = [p \in Procs |-> NoEntry]
  /\ inserted = [p \in Procs |-> <<>>]
  /\ ranged = [p \in Procs |-> <<>>]
  /\ initStarted = 0
  /\ initFinished = 0

----------------------------------------------------------------------------
(* Format, step by step, as concurrent goroutines run it *)

\* lines 119-142: the copy of the fields, the keys in the order the map yields them
\* (order: any order of the keys), the sort, the buffer
Call(p, e, ins, order) ==
  /\ pc[p] \in {"idle", "returned"}
  /\ ins \in Orders(DOMAIN e.Data)
  /\ order \in Orders(DOMAIN e.Data)
  /\ inserted' = [inserted EXCEPT ![p] = ins]
  /\ ranged' = [ranged EXCEPT ![p] = order]
  /\ entry' = [entry EXCEPT ![p] = e]
  /\ given' = [given EXCEPT ![p] = e]
  /\ keys' = [keys EXCEPT ![p] = SortKeys(f, order)]
  /\ pc' = [pc EXCEPT ![p] = "once"]
  /\ UNCHANGED <<f, goos, once, out, idx, initStarted, initFinished>>

\* line 144 written as a plain call, f.init(entry), without the Once
OnceDo_DirectInit(p) ==
  /\ pc[p] = "once"
  /\ pc' = [pc EXCEPT ![p] = "init"]
  /\ initStarted' = initStarted + 1
  /\ UNCHANGED <<f, goos, once, entry, keys, out, idx, given, inserted, ranged, initFinished>>

\* line 144, sync.Once.Do: the load of done on the fast path
OnceDo(p) ==
  /\ pc[p] = "once"
  /\ pc' = [pc EXCEPT ![p] = IF once.done = 0 THEN "lock" ELSE "format"]
  /\ UNCHANGED <<f, goos, once, entry, keys, out, idx, given, inserted, ranged, initStarted, initFinished>>

\* sync.Once.doSlow: o.m.Lock()
OnceLock(p) ==
  /\ pc[p] = "lock"
  /\ once.m = 0
  /\ once' = [once EXCEPT !.m = p]
  /\ pc' = [pc EXCEPT ![p] = "check"]
  /\ UNCHANGED <<f, goos, entry, keys, out, idx, given, inserted, ranged, initStarted, initFinished>>

\* sync.Once.doSlow: the second load of done, under the mutex
OnceCheck(p) ==
  /\ pc[p] = "check"
  /\ IF once.done = 0
     THEN /\ pc' = [pc EXCEPT ![p] = "init"]
          /\ initStarted' = initStarted + 1
     ELSE /\ pc' = [pc EXCEPT ![p] = "unlock"]
          /\ UNCHANGED initStarted
  /\ UNCHANGED <<f, goos, once, entry, keys, out, idx, given, inserted, ranged, initFinished>>

\* init, lines 63-65
InitProbe(p) ==
  /\ pc[p] = "init"
  /\ f' = InitTerminal(f, entry[p])
  /\ idx' = [idx EXCEPT ![p] = 1]
  /\ pc' = [pc EXCEPT ![p] = "levels"]
  /\ UNCHANGED <<goos, once, entry, keys, out, given, inserted, ranged, initStarted, initFinished>>

\* init, lines 66-71: one turn of the loop, and its end
InitLoop(p) ==
  /\ pc[p] = "levels"
  /\ IF idx[p] <= Len(AllLevels)
     THEN /\ f' = InitLevel(f, idx[p])
          /\ idx' = [idx EXCEPT ![p] = idx[p] + 1]
          /\ UNCHANGED <<pc, initFinished>>
     ELSE /\ pc' = [pc EXCEPT ![p] = "store"]
          /\ initFinished' = initFinished + 1
          /\ UNCHANGED <<f, idx>>
  /\ UNCHANGED <<goos, once, entry, keys, out, given, inserted, ranged, initStarted>>

\* sync.Once.doSlow: the deferred o.done.Store(1)
OnceStore(p) ==
  /\ pc[p] = "store"
  /\ once' = [once EXCEPT !.done = 1]
  /\ pc' = [pc EXCEPT ![p] = "unlock"]
  /\ UNCHANGED <<f, goos, entry, keys, out, idx, given, inserted, ranged, initStarted, initFinished>>

\* sync.Once.doSlow: the deferred o.m.Unlock()
OnceUnlock(p) ==
  /\ pc[p] = "unlock"
  /\ once' = [once EXCEPT !.m = 0]
  /\ pc' = [pc EXCEPT ![p] = "format"]
  /\ UNCHANGED <<f, goos, entry, keys, out, idx, given, inserted, ranged, initStarted, initFinished>>

\* the entry when Format returns: line 182 assigns the trimmed message, lines 210-222
\* write into entry.Buffer when there is one
EntryAfter(fmtr, os, e, ks) ==
  [e EXCEPT !.Message = TrimSuffix(e.Message),
            !.Buffer = IF ~e.Buffer.isNil
                       THEN [e.Buffer EXCEPT !.bytes = @ \o LineText(fmtr, os, e, ks)]
                       ELSE e.Buffer]

\* line 223: b.Bytes()
Returned(fmtr, os, e, ks) ==
  (IF ~e.Buffer.isNil THEN e.Buffer.bytes ELSE <<>>) \o LineText(fmtr, os, e, ks)

\* lines 146-223: the rest of Format, which reads the two cached fields
FormatLine(p) ==
  /\ pc[p] = "format"
  /\ IF TruncatePanics(f, entry[p].Level)
     THEN /\ pc' = [pc EXCEPT ![p] = "panicked"]
          /\ UNCHANGED <<entry, out>>
     ELSE /\ pc' = [pc EXCEPT ![p] = "returned"]
          /\ entry' = [entry EXCEPT ![p] = EntryAfter(f, goos, entry[p], keys[p])]
          /\ out' = [out EXCEPT ![p] = Returned(f, goos, entry[p], keys[p])]
  /\ UNCHANGED <<f, goos, once, keys, idx, given, inserted, ranged, initStarted, initFinished>>

\* Format as one uninterrupted call, lines 119-223: the steps above in sequence
Format(p, e, ins, order) ==
  /\ pc[p] \in {"idle", "returned"}
  /\ once.m = 0
  /\ ins \in Orders(DOMAIN e.Data)
  /\ order \in Orders(DOMAIN e.Data)
  /\ LET ks == SortKeys(f, order)
         first == once.done = 0
         f1 == IF first THEN InitBody(f, e) ELSE f
     IN /\ f' = f1
        /\ once' = [once EXCEPT !.done = 1]
        /\ initStarted' = IF first THEN initStarted + 1 ELSE initStarted
        /\ initFinished' = IF first THEN initFinished + 1 ELSE initFinished
        /\ idx' = IF first THEN [idx EXCEPT ![p] = Len(AllLevels) + 1] ELSE idx
        /\ keys' = [keys EXCEPT ![p] = ks]
        /\ given' = [given EXCEPT ![p] = e]
        /\ inserted' = [inserted EXCEPT ![p] = ins]
        /\ ranged' = [ranged EXCEPT ![p] = order]
        /\ IF TruncatePanics(f1, e.Level)
           THEN /\ pc' = [pc EXCEPT ![p] = "panicked"]
                /\ entry' = [entry EXCEPT ![p] = e]
                /\ UNCHANGED out
           ELSE /\ pc' = [pc EXCEPT ![p] = "returned"]
                /\ entry' = [entry EXCEPT ![p] = EntryAfter(f1, goos, e, ks)]
                /\ out' = [out EXCEPT ![p] = Returned(f1, goos, e, ks)]
  /\ UNCHANGED goos

----------------------------------------------------------------------------
(* The configurations and the records of the model *)

BaseConfig ==
  [TimestampFormat |-> "", DisableTimestamp |-> FALSE,
   ForceColors |-> FALSE, DisableColors |-> FALSE,
   ForceQuote |-> FALSE, DisableQuote |-> FALSE,
   TruncateLevelText |-> FALSE, PadLevelText |-> FALSE,
   DisableSorting |-> FALSE, SortingFunc |-> Nil, CallerPrettyfier |-> Nil]

\* field values: a string, an int, a bool
Str(s) == [kind |-> "string", s |-> s, n |-> 0, b |-> FALSE]
IntVal(n) == [kind |-> "int", s |-> <<>>, n |-> n, b |-> FALSE]
BoolVal(b) == [kind |-> "bool", s |-> <<>>, n |-> 0, b |-> b]

Txt_hello == <<"h", "e", "l", "l", "o">>
Txt_a == <<"a">>
Txt_b == <<"b">>
Txt_z == <<"z">>
Txt_1 == <<"1">>

Frame == [isNil |-> FALSE, Function |-> <<"m", "a", "i", "n", ".", "r", "u", "n">>, Line |-> 42,
          File |-> <<"m", "a", "i", "n", ".", "g", "o">>]

Buffer(bytes) == [isNil |-> FALSE, bytes |-> bytes]

Logger(w, reportCaller) == [isNil |-> FALSE, Out |-> w, ReportCaller |-> reportCaller]

BaseEntry ==
  [Logger |-> Logger("file", FALSE), Time |-> "T0", Level |-> InfoLevel,
   Message |-> Txt_hello, Data |-> FieldsOf(<<>>), Caller |-> NilFrame, Buffer |-> NilBuffer]

WithFields(e, fields) == [e EXCEPT !.Data = FieldsOf(fields)]

\* the sequences of at most n of the fields F (pairs <<key, value>>) with distinct keys
FieldSeqs(F, n) ==
  UNION {{s \in [1..m -> F] : \A i, j \in 1..m : i # j => s[i][1] # s[j][1]} : m \in 0..n}

----------------------------------------------------------------------------
(* Concurrent first use: goroutines log through one formatter *)

ConcConfigs == {[BaseConfig EXCEPT !.PadLevelText = pad] : pad \in BOOLEAN}

ConcEntries ==
  {[WithFields(BaseEntry, <<<<Txt_a, Str(Txt_1)>>>>) EXCEPT !.Logger = l] :
     l \in {NilLogger, Logger("tty", FALSE), Logger("file", FALSE), Logger("buffer", FALSE)}}

Init == \E config \in ConcConfigs : \E os \in {"linux", "windows"} : InitState(config, os)

Next ==
  \E p \in Procs :
    \/ \E e \in ConcEntries : \E ins, order \in Orders(DOMAIN e.Data) : Call(p, e, ins, order)
    \/ OnceDo(p)
    \/ OnceLock(p)
    \/ OnceCheck(p)
    \/ InitProbe(p)
    \/ InitLoop(p)
    \/ OnceStore(p)
    \/ OnceUnlock(p)
    \/ FormatLine(p)

Spec == Init /\ [][Next]_vars

----------------------------------------------------------------------------
(* C1 *)

\* a call at or past line 146 has read, or is about to read, the cached fields
PastOnce(p) == pc[p] \in {"format", "returned", "panicked"}

C1_OnceOnly ==
  /\ initStarted <= 1
  /\ initFinished <= initStarted
  /\ \A p \in Procs : PastOnce(p) => initStarted = 1 /\ initFinished = 1

C1_CacheFrozen ==
  initFinished >= 1 =>
    /\ f'.isTerminal = f.isTerminal
    /\ f'.levelTextMaxLength = f.levelTextMaxLength

\* C1: under every interleaving of the calls of Format on one formatter, the body of
\* init is entered at most once, every call that is past terminalInitOnce.Do finds
\* that it was entered once and ran to its end, and once it has, isTerminal and
\* levelTextMaxLength never change again, whatever stream later entries refer to.
C1_SingleInit == [](C1_OnceOnly) /\ [][C1_CacheFrozen]_vars

\* two goroutines are past the barrier, one returned, the other about to format an
\* entry whose stream differs in terminal status from the cached one
C1_Witness ==
  \E p, q \in Procs :
    /\ p # q
    /\ pc[q] = "returned"
    /\ pc[p] = "format"
    /\ ~entry[p].Logger.isNil
    /\ IsTerminalWriter(entry[p].Logger.Out) # f.isTerminal
    /\ initFinished = 1

----------------------------------------------------------------------------
(* The order of the fields: C4, C5 *)

Txt_ab == <<"a", "b">>
Txt_B == <<"B">>

OrderKeys == {Txt_z, Txt_a, Txt_ab, Txt_B}

OrderConfigs ==
  {[BaseConfig EXCEPT !.DisableTimestamp = TRUE, !.DisableSorting = ds, !.SortingFunc = fn] :
     ds \in BOOLEAN, fn \in {Nil, "descending"}}

OrderFields == FieldSeqs(OrderKeys \X {Str(Txt_1)}, MaxFields)

InitOrder == \E config \in OrderConfigs : InitState(config, "linux")

NextOrder ==
  \E fields \in OrderFields :
    \E order \in Orders(ToSet(KeysOf(fields))) :
      Format(1, WithFields(BaseEntry, fields), KeysOf(fields), order)

SpecOrder == InitOrder /\ [][NextOrder]_vars

\* what a call of goroutine p returns when its loop over the fields runs in the order ks
OutputInOrder(p, ks) == Returned(f, goos, given[p], ks)

IsPermutationOf(ks, S) ==
  /\ ToSet(ks) = S
  /\ Len(ks) = Cardinality(S)

IsAscending(ks) == \A i, j \in 1..Len(ks) : i < j => StrLess(ks[i], ks[j])

C5_SortedKeys ==
  \A p \in Procs :
    (pc[p] = "returned" /\ ~f.DisableSorting /\ f.SortingFunc = Nil) =>
      /\ IsPermutationOf(keys[p], DOMAIN given[p].Data)
      /\ IsAscending(keys[p])
      /\ out[p] = OutputInOrder(p, keys[p])
      /\ \A ks \in Orders(DOMAIN given[p].Data) : out[p] = OutputInOrder(p, ks) => IsAscending(ks)

\* two keys that the map yielded in descending order come out ascending, the
\* upper-case key before the lower-case ones
C5_Witness ==
  /\ pc[1] = "returned"
  /\ ~f.DisableSorting
  /\ f.SortingFunc = Nil
  /\ ranged[1] = <<Txt_ab, Txt_B>>
  /\ keys[1] = <<Txt_B, Txt_ab>>

----------------------------------------------------------------------------
(* Colours: C3, C7 *)

Txt_boldhi == <<ESC, "[", "1", "m", "h", "i">>

ColourConfigs ==
  {[BaseConfig EXCEPT !.ForceColors = fc, !.DisableColors = dc, !.DisableTimestamp = dt] :
     fc \in BOOLEAN, dc \in BOOLEAN, dt \in BOOLEAN}

ColourEntries ==
  {[BaseEntry EXCEPT !.Logger = Logger(w, FALSE), !.Level = lv, !.Message = msg] :
     w \in {"tty", "file"},
     lv \in {InfoLevel, WarnLevel, ErrorLevel, DebugLevel},
     msg \in {Txt_hello, Txt_boldhi}}

ColourFields == FieldSeqs({Txt_a, Txt_b} \X {Str(Txt_1)}, MaxFields)

InitColour ==
  \E config \in ColourConfigs : \E os \in {"linux", "windows"} : InitState(config, os)

NextColour ==
  \E e \in ColourEntries : \E fields \in ColourFields :
    \E order \in Orders(ToSet(KeysOf(fields))) :
      Format(1, WithFields(e, fields), KeysOf(fields), order)

SpecColour == InitColour /\ [][NextColour]_vars

RECURSIVE DigitsAt(_, _)
\* the number of digits of s from place i on
DigitsAt(s, i) == IF i <= Len(s) /\ IsDigit(s[i]) THEN 1 + DigitsAt(s, i + 1) ELSE 0

\* the length of the escape sequence ESC [ digits m that starts at place i of s, 0 if
\* none starts there
AnsiLength(s, i) ==
  IF i + 3 <= Len(s) /\ s[i] = ESC /\ s[i + 1] = "[" /\ DigitsAt(s, i + 2) >= 1
     /\ i + 2 + DigitsAt(s, i + 2) <= Len(s) /\ s[i + 2 + DigitsAt(s, i + 2)] = "m"
  THEN 3 + DigitsAt(s, i + 2)
  ELSE 0

\* the places of s outside every escape sequence (a sequence holds one escape byte,
\* its first, so no two overlap)
PlainPlaces(s) ==
  {i \in 1..Len(s) : \A j \in 1..i : i >= j + AnsiLength(s, j)}

\* s with every escape sequence ESC [ digits m removed
StripAnsi(s) ==
  LET kept == PlainPlaces(s)
  IN [n \in 1..Cardinality(kept) |->
        s[CHOOSE i \in kept : Cardinality({j \in kept : j < i}) = n - 1]]

HasEscapeByte(s) == \E i \in 1..Len(s) : s[i] = ESC

HasAnsi(s) == \E i \in 1..Len(s) : AnsiLength(s, i) > 0

\* the texts of a record that Format copies into the line
RecordTexts(e) ==
  {e.Message} \cup DOMAIN e.Data \cup {e.Data[k].s : k \in DOMAIN e.Data}
    \cup {e.Caller.Function, e.Caller.File}

EscapeFree(e) == \A t \in RecordTexts(e) : ~HasEscapeByte(t)

\* the places of s where the separator " :: " stands
SeparatorsIn(s) == {i \in 1..Len(s) : i + 3 <= Len(s) /\ SubSeq(s, i, i + 3) = <<" ", ":", ":", " ">>}

\* s with the separator " :: " at place i replaced by one space
Narrowed(s, i) == SubSeq(s, 1, i) \o SubSeq(s, i + 4, Len(s))

\* u is line v with its head separators " :: " (one without timestamp, two with)
\* replaced by single spaces
NarrowedHead(u, v, withTimestamp) ==
  IF withTimestamp
  THEN \E i, j \in SeparatorsIn(v) : i < j /\ u = Narrowed(Narrowed(v, j), i)
  ELSE \E i \in SeparatorsIn(v) : u = Narrowed(v, i)

\* what the call of goroutine p returns from the same formatter with colours off
Uncoloured(p) == Returned([f EXCEPT !.DisableColors = TRUE], goos, given[p], keys[p])

\* C3 as stated: the coloured output with its escape sequences removed is the
\* uncoloured output of the same record and configuration.
C3_StripIsUncoloured ==
  \A p \in Procs :
    (pc[p] = "returned" /\ isColored(f, goos)) => StripAnsi(out[p]) = Uncoloured(p)

\* C3, amended: for a record whose own texts hold no escape byte, and the fields
\* taken in the same order, the coloured output with its escape sequences removed is
\* the uncoloured output with the " :: " separators of its head replaced by single
\* spaces.
C3_StripIsNarrowedUncoloured ==
  \A p \in Procs :
    (pc[p] = "returned" /\ isColored(f, goos) /\ EscapeFree(given[p])) =>
      NarrowedHead(StripAnsi(out[p]), Uncoloured(p), ~f.DisableTimestamp)

\* a coloured line with a timestamp and two fields
C3_Witness ==
  /\ pc[1] = "returned"
  /\ isColored(f, goos)
  /\ ~f.DisableTimestamp
  /\ EscapeFree(given[1])
  /\ Len(keys[1]) = 2
  /\ HasAnsi(out[1])
  /\ StripAnsi(out[1]) # Uncoloured(1)

\* C7 as stated: DisableColors implies no escape byte in the output, whatever the
\* record; ForceColors without DisableColors implies escape sequences in it.
C7_ColourSwitches ==
  \A p \in Procs :
    pc[p] = "returned" =>
      /\ f.DisableColors => ~HasEscapeByte(out[p])
      /\ (f.ForceColors /\ ~f.DisableColors) => HasAnsi(out[p])

\* C7, amended: DisableColors implies no escape byte in the output of a record whose
\* own texts hold none, whatever ForceColors and the cached terminal status are;
\* ForceColors without DisableColors implies escape sequences in the output, whatever
\* the cached terminal status and the platform are.
C7_ColourSwitchesOwnBytes ==
  \A p \in Procs :
    pc[p] = "returned" =>
      /\ (f.DisableColors /\ EscapeFree(given[p])) => ~HasEscapeByte(out[p])
      /\ (f.ForceColors /\ ~f.DisableColors) => HasAnsi(out[p])

\* both switches set on a formatter that cached a terminal, on a colour-capable platform
C7_Witness ==
  /\ pc[1] = "returned"
  /\ f.DisableColors
  /\ f.ForceColors
  /\ f.isTerminal
  /\ goos = "linux"
  /\ EscapeFree(given[1])
  /\ ~HasEscapeByte(out[1])

----------------------------------------------------------------------------
(* Quoting: C8 *)

Txt_v == <<"v">>
Txt_needsSpace == <<"n", "e", "e", "d", "s", " ", "s", "p", "a", "c", "e">>
Txt_safe == <<"a", "Z", "0", "-", ".", "_", "/", "@", "^", "+", "z", "A", "9">>
Txt_said == <<"\"", "h", "i", "\"", "\\", "\n">>

\* every text of one character, the empty text, and some longer ones
QuoteTexts ==
  {<<c>> : c \in DOMAIN Codes} \cup {<<>>, Txt_needsSpace, Txt_safe, Txt_said, Txt_boldhi}

QuoteValues ==
  {Str(t) : t \in QuoteTexts} \cup {IntVal(42), IntVal(0 - 7), BoolVal(TRUE), BoolVal(FALSE)}

QuoteConfigs ==
  {[BaseConfig EXCEPT !.DisableTimestamp = TRUE, !.ForceQuote = fq, !.DisableQuote = dq] :
     fq \in BOOLEAN, dq \in BOOLEAN}

InitQuote == \E config \in QuoteConfigs : InitState(config, "linux")

NextQuote ==
  \E value \in QuoteValues :
    Format(1, WithFields(BaseEntry, <<<<Txt_v, value>>>>), <<Txt_v>>, <<Txt_v>>)

SpecQuote == InitQuote /\ [][NextQuote]_vars

\* the characters that need no quoting
SafeChars ==
  {"a", "b", "c", "d", "e", "f", "g", "h", "i", "j", "k", "l", "m",
   "n", "o", "p", "q", "r", "s", "t", "u", "v", "w", "x", "y", "z",
   "A", "B", "C", "D", "E", "F", "G", "H", "I", "J", "K", "L", "M",
   "N", "O", "P", "Q", "R", "S", "T", "U", "V", "W", "X", "Y", "Z",
   "0", "1", "2", "3", "4", "5", "6", "7", "8", "9",
   "-", ".", "_", "/", "@", "^", "+"}

AllSafe(text) == \A i \in 1..Len(text) : text[i] \in SafeChars

\* the text of a field value: a string as it is, the decimal digits of an int, true
\* or false
ValueString(value) ==
  CASE value.kind = "string" -> value.s
    [] value.kind = "int" -> Itoa(value.n)
    [] OTHER -> IF value.b THEN <<"t", "r", "u", "e">> ELSE <<"f", "a", "l", "s", "e">>

\* what the line of goroutine p shows after " v=", up to the newline
ShownValue(p) ==
  LET head == Len(HeadText(f, goos, given[p])) + 3
  IN SubSeq(out[p], head + 1, Len(out[p]) - 1)

\* C8: ForceQuote: the value is quoted even when its text is safe; DisableQuote
\* without ForceQuote: never quoted; neither: unquoted exactly when every character
\* of the text, the empty text included, is in the safe set, and quoted otherwise.
C8_QuotingDecision ==
  \A p \in Procs :
    pc[p] = "returned" =>
      LET text == ValueString(given[p].Data[Txt_v])
          quoted == ShownValue(p) = Quote(text)
          plain == ShownValue(p) = text
      IN /\ SubSeq(out[p], 1, Len(HeadText(f, goos, given[p])) + 3)
              = HeadText(f, goos, given[p]) \o <<" ", "v", "=">>
         /\ quoted \/ plain
         /\ quoted # plain
         /\ f.ForceQuote => quoted
         /\ (~f.ForceQuote /\ f.DisableQuote) => plain
         /\ (~f.ForceQuote /\ ~f.DisableQuote) => (plain <=> AllSafe(text))

\* both switches set and a safe text: quoted
C8_Witness ==
  /\ pc[1] = "returned"
  /\ f.ForceQuote
  /\ f.DisableQuote
  /\ given[1].Data[Txt_v] = Str(Txt_safe)
  /\ ShownValue(1) = Quote(Txt_safe)

----------------------------------------------------------------------------
(* The level text: C9 *)

LevelConfigs ==
  {[BaseConfig EXCEPT !.DisableTimestamp = TRUE, !.TruncateLevelText = tr,
                      !.PadLevelText = pad, !.ForceColors = fc] :
     tr \in BOOLEAN, pad \in BOOLEAN, fc \in BOOLEAN}

LevelEntries ==
  {[BaseEntry EXCEPT !.Level = AllLevels[i], !.Logger = Logger(w, FALSE), !.Message = msg] :
     i \in 1..Len(AllLevels), w \in {"tty", "file"}, msg \in {Txt_hello, <<>>}}

InitLevelText == \E config \in LevelConfigs : InitState(config, "linux")

NextLevelText == \E e \in LevelEntries : Format(1, e, <<>>, <<>>)

SpecLevel == InitLevelText /\ [][NextLevelText]_vars

\* the upper-case names of the levels
UpperName(level) ==
  CASE level = PanicLevel -> <<"P", "A", "N", "I", "C">>
    [] level = FatalLevel -> <<"F", "A", "T", "A", "L">>
    [] level = ErrorLevel -> <<"E", "R", "R", "O", "R">>
    [] level = WarnLevel -> <<"W", "A", "R", "N", "I", "N", "G">>
    [] level = InfoLevel -> <<"I", "N", "F", "O">>
    [] level = DebugLevel -> <<"D", "E", "B", "U", "G">>
    [] OTHER -> <<"T", "R", "A", "C", "E">>

\* the length of the longest level name
LongestName ==
  CHOOSE n \in 0..20 :
    /\ \E i \in 1..Len(AllLevels) : Len(UpperName(AllLevels[i])) = n
    /\ \A i \in 1..Len(AllLevels) : Len(UpperName(AllLevels[i])) <= n

\* the level text the claim expects
ExpectedLevelText(level) ==
  IF f.PadLevelText
  THEN UpperName(level) \o Spaces(LongestName - Len(UpperName(level)))
  ELSE IF f.TruncateLevelText
  THEN <<UpperName(level)[1], UpperName(level)[2], UpperName(level)[3], UpperName(level)[4]>>
  ELSE UpperName(level)

\* C9: for every level, TruncateLevelText without PadLevelText renders the first 4
\* characters of the upper-case name; PadLevelText, whatever TruncateLevelText is,
\* renders the full upper-case name padded with spaces to levelTextMaxLength, the
\* length of the longest name; the truncation never indexes out of range.
C9_LevelText ==
  \A p \in Procs :
    /\ pc[p] # "panicked"
    /\ pc[p] = "returned" =>
         /\ f.levelTextMaxLength = LongestName
         /\ Len(ExpectedLevelText(given[p].Level)) =
              (IF f.PadLevelText THEN f.levelTextMaxLength
               ELSE IF f.TruncateLevelText THEN 4
               ELSE Len(UpperName(given[p].Level)))
         /\ StripAnsi(out[p]) =
              ExpectedLevelText(given[p].Level)
                \o (IF isColored(f, goos) THEN <<" ">> ELSE <<" ", ":", ":", " ">>)
                \o PadRight(given[p].Message, messageWidth) \o <<" ", "\n">>

\* both switches set, the longest name: WARNING, not WARN
C9_Witness ==
  /\ pc[1] = "returned"
  /\ f.TruncateLevelText
  /\ f.PadLevelText
  /\ given[1].Level = WarnLevel
  /\ SubSeq(out[1], 1, 8) = <<"W", "A", "R", "N", "I", "N", "G", " ">>

----------------------------------------------------------------------------
(* The caller annotation: C10 *)

CallerConfigs ==
  {[BaseConfig EXCEPT !.DisableTimestamp = dt, !.CallerPrettyfier = fn] :
     dt \in BOOLEAN, fn \in {Nil, "both", "function", "file", "neither"}}

CallerEntries ==
  {[BaseEntry EXCEPT !.Logger = l, !.Caller = c, !.Level = lv] :
     l \in {NilLogger, Logger("file", FALSE), Logger("file", TRUE)},
     c \in {NilFrame, Frame},
     lv \in {InfoLevel, ErrorLevel}}

InitCaller == \E config \in CallerConfigs : InitState(config, "linux")

NextCaller == \E e \in CallerEntries : Format(1, e, <<>>, <<>>)

SpecCaller == InitCaller /\ [][NextCaller]_vars

\* text t stands somewhere in s
Contains(s, t) == \E i \in 0..(Len(s) - Len(t)) : SubSeq(s, i + 1, i + Len(t)) = t

\* the function text and the file text of the caller of an entry
CallerPair(e) ==
  IF f.CallerPrettyfier = Nil
  THEN <<e.Caller.Function \o <<":">> \o Itoa(e.Caller.Line), <<>>>>
  ELSE CallPrettyfier(f.CallerPrettyfier, e.Caller)

\* the combined text of the claim
Combined(e) ==
  IF CallerPair(e)[2] = <<>> THEN CallerPair(e)[1]
  ELSE IF CallerPair(e)[1] = <<>> THEN CallerPair(e)[2]
  ELSE CallerPair(e)[2] \o <<" ">> \o CallerPair(e)[1]

\* C10: when the record carries caller info, the combined text is the function text
\* if the file text is empty, the file text if the function text is empty, else file
\* text, space, function text; a non-empty combined text is emitted as " (combined)",
\* an empty one stays empty: no " ()" in the output.
C10_CallerAnnotation ==
  \A p \in Procs :
    (pc[p] = "returned" /\ HasCaller(given[p])) =>
      IF Combined(given[p]) # <<>>
      THEN Contains(out[p], <<" ", "(">> \o Combined(given[p]) \o <<")">>)
      ELSE ~Contains(out[p], <<" ", "(", ")">>)

----------------------------------------------------------------------------
(* The layout of the line and the record after the call: C2, C6 *)

Txt_helloNewline == <<"h", "e", "l", "l", "o", "\n">>

\* a message longer than the message column
Txt_long == [i \in 1..(messageWidth + 2) |-> "m"]

LayoutConfigs ==
  {[BaseConfig EXCEPT !.DisableTimestamp = dt, !.DisableColors = dc, !.ForceColors = TRUE] :
     dt \in BOOLEAN, dc \in BOOLEAN}

LayoutEntries ==
  {[BaseEntry EXCEPT !.Message = msg, !.Buffer = b, !.Level = lv,
                     !.Logger = Logger("file", TRUE), !.Caller = c] :
     msg \in {Txt_hello, Txt_helloNewline, Txt_long},
     b \in {NilBuffer, Buffer(<<"x", "\n">>)},
     lv \in {InfoLevel, WarnLevel},
     c \in {NilFrame, Frame}}

LayoutFields == FieldSeqs({<<Txt_a, Str(Txt_1)>>, <<Txt_b, Str(Txt_needsSpace)>>}, MaxFields)

InitLayout == \E config \in LayoutConfigs : InitState(config, "linux")

NextLayout ==
  \E e \in LayoutEntries : \E fields \in LayoutFields :
    \E order \in Orders(ToSet(KeysOf(fields))) :
      Format(1, WithFields(e, fields), KeysOf(fields), order)

SpecLayout == InitLayout /\ [][NextLayout]_vars

\* C2: Format does not change the caller's record: after the call its message, level,
\* timestamp, fields and caller are what they were before it.
C2_RecordUnchanged ==
  \A p \in Procs :
    pc[p] = "returned" =>
      /\ entry[p].Message = given[p].Message
      /\ entry[p].Level = given[p].Level
      /\ entry[p].Time = given[p].Time
      /\ entry[p].Data = given[p].Data
      /\ entry[p].Caller = given[p].Caller

\* the record of the scenario: Info, "hello", a = "1" and b = "needs space", no
\* timestamp, no colours, no caller
Scenario(p) ==
  /\ pc[p] = "returned"
  /\ f.DisableTimestamp
  /\ f.DisableColors
  /\ given[p].Level = InfoLevel
  /\ given[p].Message = Txt_hello
  /\ given[p].Buffer.isNil
  /\ ~HasCaller(given[p])
  /\ DOMAIN given[p].Data = {Txt_a, Txt_b}
  /\ given[p].Data[Txt_a] = Str(Txt_1)
  /\ given[p].Data[Txt_b] = Str(Txt_needsSpace)

ScenarioLine(gap) ==
  <<"I", "N", "F", "O", " ", ":", ":", " ", "h", "e", "l", "l", "o">> \o Spaces(gap)
    \o <<"a", "=", "1", " ", "b", "=", "\"">> \o Txt_needsSpace \o <<"\"", "\n">>

\* the line of a record without timestamp and colour: the level and the caller,
\* " :: ", the message left-justified to 44 characters, one space, then " key=value"
\* per field
PlainLine(p) ==
  LET message == IF given[p].Message = Txt_helloNewline THEN Txt_hello ELSE given[p].Message
      gap == IF Len(message) < 44 THEN 44 - Len(message) ELSE 0
      caller == IF given[p].Caller.isNil THEN <<>>
                ELSE <<" ", "(">> \o given[p].Caller.Function \o <<":", "4", "2", ")">>
  IN UpperName(given[p].Level) \o caller \o <<" ", ":", ":", " ">>
       \o message \o Spaces(gap) \o <<" ">>
       \o Concat([i \in 1..Len(keys[p]) |->
                    <<" ">> \o keys[p][i] \o <<"=">>
                      \o appendValue(f, given[p].Data[keys[p][i]])])
       \o <<"\n">>

\* C6 as stated: the scenario's line has 39 spaces between "hello" and "a=1".
C6_Layout39 ==
  \A p \in Procs : Scenario(p) => out[p] = ScenarioLine(39)

\* C6, amended: the scenario's line has 41 spaces between "hello" and "a=1" (39 pad
\* the message to 44 characters, one follows the message column, one leads the
\* field); in general, without timestamp and colour, the line is LEVEL+caller, " :: ",
\* the message left-justified to a minimum width of 44, one space, then each field as
\* " key=value", and a newline.
C6_Layout41 ==
  \A p \in Procs :
    /\ Scenario(p) => out[p] = ScenarioLine(41)
    /\ (pc[p] = "returned" /\ f.DisableTimestamp /\ f.DisableColors) =>
         out[p] = given[p].Buffer.bytes \o PlainLine(p)

\* the scenario, formatted
C6_Witness == Scenario(1) /\ Len(out[1]) = Len(ScenarioLine(41))

====
